---- MODULE Spec2Model ----
(***************************************************************************)
(* Model of googleAdPlacementPlugin (src/src/mod.js): the plugin object    *)
(* (initialize, showFullScreenAd, showRewardedAd), the rewardedLoop that   *)
(* keeps one rewarded adBreak outstanding, the hooks the plugin registers  *)
(* on each adBreak, and the vendor SDK that drains window.adsbygoogle and  *)
(* invokes those hooks.  Each action is one synchronous run of plugin code *)
(* (a call, a hook, or the continuation of an await).                      *)
(***************************************************************************)
EXTENDS Integers, Sequences, FiniteSets, TLC

\* ---- bounds of the model ----
MaxAttempts == 2    \* iterations of rewardedLoop (rewarded adBreak requests)
MaxRewardedCalls == 2    \* host calls of showRewardedAd
MaxFullScreenCalls == 1  \* host calls of showFullScreenAd
MaxInitCalls == 2   \* host calls of initialize

\* ---- program constants ----
REWARDED_LOOP_RETRY_TIMEOUT == 1000
\* granularity of performance.now() in the model
TickMs == REWARDED_LOOP_RETRY_TIMEOUT \div 2

NULL == 0

AdBreakStatus ==
    {"notReady", "timeout", "error", "noAdPreloaded", "frequencyCapped",
     "ignored", "other", "dismissed", "viewed"}
\* a breakStatus outside the documented enum
UnknownStatus == {"bogus"}
AnyStatus == AdBreakStatus \cup UnknownStatus
\* the statuses the vendor reports in the model of the plugin's life cycle
VendorStatus == {"viewed", "frequencyCapped"}
AdBreakType == {"preroll", "start", "pause", "next", "browse", "reward"}
BreakFormat == {"interstitial", "reward"}

Min(a, b) == IF a < b THEN a ELSE b
Max(a, b) == IF a > b THEN a ELSE b

\* ---- Result Translator ----
\* faulty variant: the "noAdPreloaded" case of mod.js:85 is missing
placementInfoToAdLadResultDropsCase(placementInfo) ==
    LET status == placementInfo.breakStatus IN
    IF status = "viewed" THEN [didShowAd |-> TRUE, errorReason |-> "null"]
    ELSE IF status = "frequencyCapped"
        THEN [didShowAd |-> FALSE, errorReason |-> "time-constraint"]
    ELSE IF status = "dismissed"
        THEN [didShowAd |-> FALSE, errorReason |-> "user-dismissed"]
    ELSE IF status = "notReady" \/ status = "timeout"
        THEN [didShowAd |-> FALSE, errorReason |-> "no-ad-available"]
    ELSE [didShowAd |-> FALSE, errorReason |-> "unknown"]

placementInfoToAdLadResult(placementInfo) ==
    LET status == placementInfo.breakStatus IN
    IF status = "viewed" THEN [didShowAd |-> TRUE, errorReason |-> "null"]
    ELSE IF status = "frequencyCapped"
        THEN [didShowAd |-> FALSE, errorReason |-> "time-constraint"]
    ELSE IF status = "dismissed"
        THEN [didShowAd |-> FALSE, errorReason |-> "user-dismissed"]
    ELSE IF status = "notReady" \/ status = "timeout" \/ status = "noAdPreloaded"
        THEN [didShowAd |-> FALSE, errorReason |-> "no-ad-available"]
    ELSE [didShowAd |-> FALSE, errorReason |-> "unknown"]

\* the same mapping as inlined in the earlier revision's showAdHelper
showAdHelperResult(googleResult) ==
    LET status == googleResult.breakStatus IN
    IF status = "viewed" THEN [didShowAd |-> TRUE, errorReason |-> "null"]
    ELSE IF status = "frequencyCapped"
        THEN [didShowAd |-> FALSE, errorReason |-> "time-constraint"]
    ELSE IF status = "dismissed"
        THEN [didShowAd |-> FALSE, errorReason |-> "user-dismissed"]
    ELSE IF status = "notReady" \/ status = "timeout" \/ status = "noAdPreloaded"
        THEN [didShowAd |-> FALSE, errorReason |-> "no-ad-available"]
    ELSE [didShowAd |-> FALSE, errorReason |-> "unknown"]

NoAdAvailable == [didShowAd |-> FALSE, errorReason |-> "no-ad-available"]
NoResult == [didShowAd |-> FALSE, errorReason |-> "none"]

VARIABLES
    initializeCalled,     \* mod.js:10
    initializeContext,    \* mod.js:55, NULL or the ctx of initialize
    initPc,               \* position of the first initialize call
    initCalls,            \* number of initialize calls made by the host
    initThrows,           \* number of initialize calls that threw
    scriptTags,           \* script elements appended to document.head
    scriptState,          \* "none", "loading", "loaded", "error"
    configPushed,         \* adConfig requests pushed on window.adsbygoogle
    loopsStarted,         \* number of rewardedLoop() invocations
    loopPc,               \* position of rewardedLoop
    loopResult,           \* value the loop's promise was resolved with
    timePassed,           \* performance.now() - lastCallTime, saturated
    timerLeft,            \* time until the setTimeout of line 165 fires
    showRewardedAdFn,     \* mod.js:115, NULL or the attempt it closes over
    resolveRewardedAdFn,  \* mod.js:117, NULL or the call whose promise it settles
    canShow,              \* value last passed to ctx.setCanShowRewardedAd
    needsPause,           \* value last passed to ctx.setNeedsPause
    needsMute,            \* value last passed to ctx.setNeedsMute
    attempts,             \* "reward" requests pushed on window.adsbygoogle
    fullScreens,          \* showFullScreenAd calls and their "pause" requests
    rewardedCalls,        \* showRewardedAd calls
    translatorInput,      \* PlacementInfo given to the Result Translator alone
    translatorOutput      \* what the Result Translator returned for it

vars == <<initializeCalled, initializeContext, initPc, initCalls, initThrows,
          scriptTags, scriptState, configPushed, loopsStarted, loopPc,
          loopResult, timePassed, timerLeft, showRewardedAdFn,
          resolveRewardedAdFn, canShow, needsPause, needsMute, attempts,
          fullScreens, rewardedCalls, translatorInput, translatorOutput>>

translatorVars == <<translatorInput, translatorOutput>>
initVars == <<initializeCalled, initializeContext, initPc, initCalls,
              initThrows, scriptTags, scriptState, configPushed, loopsStarted>>
loopVars == <<loopPc, loopResult, timePassed, timerLeft>>
hostVars == <<canShow, needsPause, needsMute>>

NoLoopResult == [attempt |-> 0, breakStatus |-> "none"]
NoPlacementInfo ==
    [breakType |-> "none", breakName |-> "", breakFormat |-> "none",
     breakStatus |-> "none"]

\* the state after googleAdPlacementPlugin(...) returned the plugin object
PluginInit ==
    /\ initializeCalled = FALSE
    /\ initializeContext = NULL
    /\ initPc = "none"
    /\ initCalls = 0
    /\ initThrows = 0
    /\ scriptTags = 0
    /\ scriptState = "none"
    /\ configPushed = 0
    /\ loopsStarted = 0
    /\ loopPc = "notStarted"
    /\ loopResult = NoLoopResult
    /\ timePassed = 0
    /\ timerLeft = 0
    /\ showRewardedAdFn = NULL
    /\ resolveRewardedAdFn = NULL
    /\ canShow = FALSE
    /\ needsPause = FALSE
    /\ needsMute = FALSE
    /\ attempts = <<>>
    /\ fullScreens = <<>>
    /\ rewardedCalls = <<>>

Init ==
    /\ PluginInit
    /\ translatorInput = NoPlacementInfo
    /\ translatorOutput = NoResult

\* ---- the vendor command queue ----
\* adBreak(options): window.adsbygoogle.push(options); q is the part of the
\* queue that holds the requests of this type, with the vendor's progress
adBreak(q, type) ==
    Append(q, [type |-> type, phase |-> "queued", breakStatus |-> "none",
               offered |-> FALSE, showCalls |-> 0, pushes |-> 1,
               state |-> "pending", result |-> NoResult])

\* adConfig(options): window.adsbygoogle.push(options)
adConfig(n) == n + 1

\* the request of the loop's current iteration
CurrentAttempt == Len(attempts)

\* ---- rewardedLoop ----
\* faulty variant: the loop does not await the promise of mod.js:151
LoopRequestWithoutAwait ==
    /\ Len(attempts) < MaxAttempts
    /\ timePassed' = 0
    /\ timerLeft' = 0
    /\ loopResult' = NoLoopResult
    /\ attempts' = adBreak(attempts, "reward")
    /\ loopPc' = "resumed"

\* one iteration's request (mod.js:127-150): lastCallTime = performance.now()
\* and adBreak({type: "reward", ...}); the loop then awaits adBreakDone
LoopRequest ==
    /\ Len(attempts) < MaxAttempts
    /\ timePassed' = 0
    /\ timerLeft' = 0
    /\ loopResult' = NoLoopResult
    /\ attempts' = adBreak(attempts, "reward")
    /\ loopPc' = "awaitDone"

\* the promise of showRewardedAd call c is resolved with placementInfo and
\* the call returns its translation (mod.js:237-238)
Settle(cs, c, placementInfo) ==
    IF cs[c].state = "pending"
    THEN [cs EXCEPT ![c].state = "returned",
                    ![c].result = placementInfoToAdLadResult(placementInfo),
                    ![c].settledBy = placementInfo.attempt]
    ELSE cs

\* faulty variant: mod.js:157 is missing
ResolvePendingKeepsResolver ==
    /\ rewardedCalls' = IF resolveRewardedAdFn # NULL
                        THEN Settle(rewardedCalls, resolveRewardedAdFn, loopResult)
                        ELSE rewardedCalls
    /\ UNCHANGED resolveRewardedAdFn

\* mod.js:154-157
ResolvePending ==
    /\ rewardedCalls' = IF resolveRewardedAdFn # NULL
                        THEN Settle(rewardedCalls, resolveRewardedAdFn, loopResult)
                        ELSE rewardedCalls
    /\ resolveRewardedAdFn' = NULL

\* faulty variant: mod.js:158 is missing
CloseOfferKeepsTrigger ==
    /\ UNCHANGED showRewardedAdFn
    /\ canShow' = FALSE

\* faulty variant: mod.js:159 is missing
CloseOfferKeepsFlag ==
    /\ showRewardedAdFn' = NULL
    /\ UNCHANGED canShow

\* mod.js:158-159
CloseOffer ==
    /\ showRewardedAdFn' = NULL
    /\ canShow' = FALSE

\* faulty variant: the loop returns when the ad break did not show an ad
CooldownStopsOnFailure ==
    LET timeLeft == REWARDED_LOOP_RETRY_TIMEOUT - timePassed IN
    IF loopResult.breakStatus # "viewed"
    THEN /\ loopPc' = "returned"
         /\ loopResult' = NoLoopResult
         /\ UNCHANGED <<timePassed, timerLeft, attempts>>
    ELSE IF timeLeft > 0
    THEN /\ loopPc' = "timer"
         /\ timerLeft' = timeLeft
         /\ loopResult' = NoLoopResult
         /\ UNCHANGED <<timePassed, attempts>>
    ELSE LoopRequest

\* faulty variant: timeLeft of mod.js:161 with the operands swapped
CooldownOperandsSwapped ==
    LET timeLeft == timePassed - REWARDED_LOOP_RETRY_TIMEOUT IN
    IF timeLeft > 0
    THEN /\ loopPc' = "timer"
         /\ timerLeft' = timeLeft
         /\ loopResult' = NoLoopResult
         /\ UNCHANGED <<timePassed, attempts>>
    ELSE LoopRequest

\* mod.js:160-170, and the next iteration when there is nothing to wait for
Cooldown ==
    LET timeLeft == REWARDED_LOOP_RETRY_TIMEOUT - timePassed IN
    IF timeLeft > 0
    THEN /\ loopPc' = "timer"
         /\ timerLeft' = timeLeft
         /\ loopResult' = NoLoopResult
         /\ UNCHANGED <<timePassed, attempts>>
    ELSE LoopRequest

\* the continuation of `await promise` (mod.js:151) up to the next await
LoopContinue ==
    /\ loopPc = "resumed"
    /\ ResolvePending
    /\ CloseOffer
    /\ Cooldown
    /\ UNCHANGED <<initVars, needsPause, needsMute, fullScreens>>
    /\ UNCHANGED translatorVars

\* the setTimeout callback (mod.js:165-167) and the iteration it resumes
TimerFired ==
    /\ loopPc = "timer"
    /\ timerLeft = 0
    /\ LoopRequest
    /\ UNCHANGED <<initVars, hostVars, showRewardedAdFn, resolveRewardedAdFn,
                   fullScreens, rewardedCalls>>
    /\ UNCHANGED translatorVars

\* performance.now() advances while the loop waits
Tick ==
    /\ loopPc \in {"awaitDone", "timer"}
    /\ timePassed < REWARDED_LOOP_RETRY_TIMEOUT \/ timerLeft > 0
    /\ timePassed' = Min(timePassed + TickMs, REWARDED_LOOP_RETRY_TIMEOUT)
    /\ timerLeft' = Max(0, timerLeft - TickMs)
    /\ UNCHANGED <<initVars, hostVars, loopPc, loopResult, showRewardedAdFn,
                   resolveRewardedAdFn, attempts, fullScreens, rewardedCalls>>
    /\ UNCHANGED translatorVars

\* ---- initialize ----
\* mod.js:180-207, up to `await promise`
InitializeBody(ctx) ==
    /\ initializeCalled' = TRUE
    /\ initializeContext' = ctx
    /\ canShow' = FALSE
    /\ scriptTags' = scriptTags + 1
    /\ scriptState' = "loading"
    /\ initPc' = "awaitLoad"
    /\ UNCHANGED <<initThrows, configPushed, loopsStarted, loopVars,
                   showRewardedAdFn, resolveRewardedAdFn, needsPause,
                   needsMute, attempts, fullScreens, rewardedCalls>>

\* faulty variant: the guard of mod.js:177-179 is missing
InitializeUnguarded ==
    /\ initCalls < MaxInitCalls
    /\ initCalls' = initCalls + 1
    /\ InitializeBody(initCalls + 1)
    /\ UNCHANGED translatorVars

\* plugin.initialize(ctx) (mod.js:176-207); the host passes a fresh ctx on
\* each call
Initialize ==
    /\ initCalls < MaxInitCalls
    /\ initCalls' = initCalls + 1
    /\ IF initializeCalled
       THEN /\ initThrows' = initThrows + 1
            /\ UNCHANGED <<initializeCalled, initializeContext, initPc,
                           scriptTags, scriptState, configPushed, loopsStarted,
                           loopVars, hostVars, showRewardedAdFn,
                           resolveRewardedAdFn, attempts, fullScreens,
                           rewardedCalls>>
       ELSE InitializeBody(initCalls + 1)
    /\ UNCHANGED translatorVars

\* rewardedLoop() up to its first await (mod.js:121-151)
rewardedLoop ==
    IF initializeContext = NULL
    THEN /\ loopPc' = "threw"
         /\ UNCHANGED <<loopsStarted, loopResult, timePassed, timerLeft,
                        attempts>>
    ELSE /\ loopsStarted' = loopsStarted + 1
         /\ LoopRequest

\* the script's "load" event: initialize resumes (mod.js:207-213) with
\* adConfig(...) and then rewardedLoop()
ScriptLoad ==
    /\ scriptState = "loading"
    /\ scriptState' = "loaded"
    /\ initPc' = "done"
    /\ configPushed' = adConfig(configPushed)
    /\ rewardedLoop
    /\ UNCHANGED <<initializeCalled, initializeContext, initCalls, initThrows,
                   scriptTags, hostVars, showRewardedAdFn, resolveRewardedAdFn,
                   fullScreens, rewardedCalls>>
    /\ UNCHANGED translatorVars

\* faulty variant: the rejection is swallowed and initialize goes on
ScriptErrorSwallowed ==
    /\ scriptState = "loading"
    /\ scriptState' = "error"
    /\ initPc' = "done"
    /\ configPushed' = adConfig(configPushed)
    /\ rewardedLoop
    /\ UNCHANGED <<initializeCalled, initializeContext, initCalls, initThrows,
                   scriptTags, hostVars, showRewardedAdFn, resolveRewardedAdFn,
                   fullScreens, rewardedCalls>>
    /\ UNCHANGED translatorVars

\* the script's "error" event: initialize rejects (mod.js:202-207)
ScriptError ==
    /\ scriptState = "loading"
    /\ scriptState' = "error"
    /\ initPc' = "rejected"
    /\ UNCHANGED <<initializeCalled, initializeContext, initCalls, initThrows,
                   scriptTags, configPushed, loopsStarted, loopVars, hostVars,
                   showRewardedAdFn, resolveRewardedAdFn, attempts,
                   fullScreens, rewardedCalls>>
    /\ UNCHANGED translatorVars

\* ---- hooks the plugin registers on an adBreak ----
\* beforeAfter.beforeAd (mod.js:58-62); the throw goes to the vendor
beforeAd ==
    IF initializeContext = NULL
    THEN UNCHANGED <<needsPause, needsMute>>
    ELSE needsPause' = TRUE /\ needsMute' = TRUE

\* beforeAfter.afterAd (mod.js:63-67)
afterAd ==
    IF initializeContext = NULL
    THEN UNCHANGED <<needsPause, needsMute>>
    ELSE needsMute' = FALSE /\ needsPause' = FALSE

\* beforeReward(showAdFn) of attempt n (mod.js:132-143)
beforeReward(n) ==
    /\ showRewardedAdFn' = n
    /\ canShow' = TRUE

\* adBreakDone of attempt n (mod.js:146-148): resolves the promise the loop
\* awaits; the loop's continuation runs later, as LoopContinue
rewardedAdBreakDone(n, status) ==
    IF loopPc = "awaitDone" /\ CurrentAttempt = n
    THEN /\ loopPc' = "resumed"
         /\ loopResult' = [attempt |-> n, breakStatus |-> status]
    ELSE UNCHANGED <<loopPc, loopResult>>

\* faulty variant: the hook also resolves resolveRewardedAdFn
fullScreenAdBreakDoneSettlesPending(f, status) ==
    /\ fullScreens' =
           [fullScreens EXCEPT
               ![f].phase = "done", ![f].breakStatus = status,
               ![f].state = "returned",
               ![f].result = placementInfoToAdLadResult([breakStatus |-> status])]
    /\ rewardedCalls' =
           IF resolveRewardedAdFn # NULL
           THEN Settle(rewardedCalls, resolveRewardedAdFn,
                       [attempt |-> 0, breakStatus |-> status])
           ELSE rewardedCalls
    /\ resolveRewardedAdFn' = NULL

\* adBreakDone of the request of showFullScreenAd call f (mod.js:223-225)
\* and the return of the call that awaits it (mod.js:228)
fullScreenAdBreakDone(f, status) ==
    /\ fullScreens' =
           [fullScreens EXCEPT
               ![f].phase = "done", ![f].breakStatus = status,
               ![f].state = "returned",
               ![f].result = placementInfoToAdLadResult([breakStatus |-> status])]
    /\ UNCHANGED <<rewardedCalls, resolveRewardedAdFn>>

\* ---- the vendor SDK, once its script is loaded ----
IsAttempt(n) == scriptState = "loaded" /\ n \in 1..Len(attempts)
IsFullScreen(f) == scriptState = "loaded" /\ f \in 1..Len(fullScreens)

\* the vendor has a rewarded ad for attempt n and calls beforeReward
BeforeReward(n) ==
    /\ IsAttempt(n)
    /\ attempts[n].phase = "queued"
    /\ attempts' = [attempts EXCEPT ![n].phase = "offered",
                                    ![n].offered = TRUE]
    /\ beforeReward(n)
    /\ UNCHANGED <<initVars, loopVars, resolveRewardedAdFn, needsPause,
                   needsMute, fullScreens, rewardedCalls>>
    /\ UNCHANGED translatorVars

\* the vendor starts the ad of attempt n, after showAdFn, and calls beforeAd
RewardedBeforeAd(n) ==
    /\ IsAttempt(n)
    /\ attempts[n].phase = "showRequested"
    /\ attempts' = [attempts EXCEPT ![n].phase = "inAd"]
    /\ beforeAd
    /\ UNCHANGED <<initVars, loopVars, showRewardedAdFn, resolveRewardedAdFn,
                   canShow, fullScreens, rewardedCalls>>
    /\ UNCHANGED translatorVars

\* the ad of attempt n ends: adDismissed / adViewed (no-ops), then afterAd
RewardedAfterAd(n) ==
    /\ IsAttempt(n)
    /\ attempts[n].phase = "inAd"
    /\ attempts' = [attempts EXCEPT ![n].phase = "afterAd"]
    /\ afterAd
    /\ UNCHANGED <<initVars, loopVars, showRewardedAdFn, resolveRewardedAdFn,
                   canShow, fullScreens, rewardedCalls>>
    /\ UNCHANGED translatorVars

\* the vendor reports the PlacementInfo of attempt n, once, as its last step
RewardedAdBreakDone(n, status) ==
    /\ IsAttempt(n)
    /\ attempts[n].phase \in {"queued", "offered", "showRequested", "afterAd"}
    /\ attempts' = [attempts EXCEPT ![n].phase = "done",
                                    ![n].breakStatus = status]
    /\ rewardedAdBreakDone(n, status)
    /\ UNCHANGED <<initVars, timePassed, timerLeft, hostVars, showRewardedAdFn,
                   resolveRewardedAdFn, fullScreens, rewardedCalls>>
    /\ UNCHANGED translatorVars

\* the vendor starts the ad of a "pause" request and calls beforeAd
FullScreenBeforeAd(f) ==
    /\ IsFullScreen(f)
    /\ fullScreens[f].phase = "queued"
    /\ fullScreens' = [fullScreens EXCEPT ![f].phase = "inAd"]
    /\ beforeAd
    /\ UNCHANGED <<initVars, loopVars, showRewardedAdFn, resolveRewardedAdFn,
                   canShow, attempts, rewardedCalls>>
    /\ UNCHANGED translatorVars

\* the ad of a "pause" request ends: afterAd
FullScreenAfterAd(f) ==
    /\ IsFullScreen(f)
    /\ fullScreens[f].phase = "inAd"
    /\ fullScreens' = [fullScreens EXCEPT ![f].phase = "afterAd"]
    /\ afterAd
    /\ UNCHANGED <<initVars, loopVars, showRewardedAdFn, resolveRewardedAdFn,
                   canShow, attempts, rewardedCalls>>
    /\ UNCHANGED translatorVars

\* the vendor reports the PlacementInfo of a "pause" request
FullScreenAdBreakDone(f, status) ==
    /\ IsFullScreen(f)
    /\ fullScreens[f].phase \in {"queued", "afterAd"}
    /\ fullScreenAdBreakDone(f, status)
    /\ UNCHANGED <<initVars, loopVars, hostVars, showRewardedAdFn, attempts>>
    /\ UNCHANGED translatorVars

\* what the vendor does inside showAdFn() before it returns: nothing yet,
\* start the ad (beforeAd), or end the ad break at once with a status
ShowOutcomes == {"async", "beforeAd"} \cup VendorStatus

\* the vendor-supplied showAdFn of attempt n
showAdFn(n, outcome) ==
    IF attempts[n].phase # "offered"
    THEN /\ attempts' = [attempts EXCEPT ![n].showCalls = @ + 1]
         /\ UNCHANGED <<loopPc, loopResult, needsPause, needsMute>>
    ELSE IF outcome = "async"
    THEN /\ attempts' = [attempts EXCEPT ![n].showCalls = @ + 1,
                                        ![n].phase = "showRequested"]
         /\ UNCHANGED <<loopPc, loopResult, needsPause, needsMute>>
    ELSE IF outcome = "beforeAd"
    THEN /\ attempts' = [attempts EXCEPT ![n].showCalls = @ + 1,
                                        ![n].phase = "inAd"]
         /\ beforeAd
         /\ UNCHANGED <<loopPc, loopResult>>
    ELSE /\ attempts' = [attempts EXCEPT ![n].showCalls = @ + 1,
                                        ![n].phase = "done",
                                        ![n].breakStatus = outcome]
         /\ rewardedAdBreakDone(n, outcome)
         /\ UNCHANGED <<needsPause, needsMute>>

\* ---- showRewardedAd / showFullScreenAd ----
\* flagAtShow: the flag the host had last been given when showAdFn was entered
NewCall == [state |-> "pending", result |-> NoResult, trigger |-> 0,
            settledBy |-> 0, flagAtShow |-> FALSE]

\* faulty variant: showAdFn() is called before setCanShowRewardedAd(false)
showRewardedAdFnCallFlagAfterShow(n, c, outcome) ==
    /\ rewardedCalls' =
           Append(rewardedCalls, [NewCall EXCEPT !.trigger = n,
                                                 !.flagAtShow = canShow])
    /\ showAdFn(n, outcome)
    /\ canShow' = FALSE
    /\ resolveRewardedAdFn' = c

\* the closure published by beforeReward (mod.js:133-141), run for call c:
\* the flag is lowered first, so showAdFn is entered with canShow' told
showRewardedAdFnCall(n, c, outcome) ==
    /\ canShow' = FALSE
    /\ rewardedCalls' =
           Append(rewardedCalls, [NewCall EXCEPT !.trigger = n,
                                                 !.flagAtShow = canShow'])
    /\ showAdFn(n, outcome)
    /\ resolveRewardedAdFn' = c

\* plugin.showRewardedAd() (mod.js:230-239) up to its return or its await
ShowRewardedAd ==
    /\ Len(rewardedCalls) < MaxRewardedCalls
    /\ IF showRewardedAdFn = NULL
       THEN /\ rewardedCalls' =
                   Append(rewardedCalls, [NewCall EXCEPT !.state = "returned",
                                                         !.result = NoAdAvailable])
            /\ UNCHANGED <<loopPc, loopResult, hostVars, resolveRewardedAdFn,
                           attempts>>
       ELSE \E outcome \in ShowOutcomes :
                showRewardedAdFnCall(showRewardedAdFn,
                                     Len(rewardedCalls) + 1, outcome)
    /\ UNCHANGED <<initVars, timePassed, timerLeft, showRewardedAdFn,
                   fullScreens>>
    /\ UNCHANGED translatorVars

\* plugin.showFullScreenAd() (mod.js:217-229) up to its await
ShowFullScreenAd ==
    /\ Len(fullScreens) < MaxFullScreenCalls
    /\ fullScreens' = adBreak(fullScreens, "pause")
    /\ UNCHANGED <<initVars, loopVars, hostVars, showRewardedAdFn,
                   resolveRewardedAdFn, attempts, rewardedCalls>>
    /\ UNCHANGED translatorVars

Next ==
    \/ Initialize
    \/ ScriptLoad
    \/ ScriptError
    \/ LoopContinue
    \/ TimerFired
    \/ Tick
    \/ ShowRewardedAd
    \/ ShowFullScreenAd
    \/ \E n \in 1..MaxAttempts : BeforeReward(n)
    \/ \E n \in 1..MaxAttempts : RewardedBeforeAd(n)
    \/ \E n \in 1..MaxAttempts : RewardedAfterAd(n)
    \/ \E n \in 1..MaxAttempts, status \in VendorStatus :
           RewardedAdBreakDone(n, status)
    \/ \E f \in 1..MaxFullScreenCalls : FullScreenBeforeAd(f)
    \/ \E f \in 1..MaxFullScreenCalls : FullScreenAfterAd(f)
    \/ \E f \in 1..MaxFullScreenCalls, status \in VendorStatus :
           FullScreenAdBreakDone(f, status)

Spec == Init /\ [][Next]_vars

\* The event loop runs the continuation of a resolved await and a due timer,
\* time passes, and the vendor ends every ad and reports every ad break
\* (its contract); the host is free never to call anything.
Fairness ==
    /\ WF_vars(LoopContinue)
    /\ WF_vars(TimerFired)
    /\ WF_vars(Tick)
    /\ WF_vars(\E n \in 1..MaxAttempts : RewardedAfterAd(n))
    /\ WF_vars(\E n \in 1..MaxAttempts, status \in VendorStatus :
                   RewardedAdBreakDone(n, status))

SpecLive == Init /\ [][Next]_vars /\ Fairness

\* ---- the Result Translator on its own ----
PlacementInfos ==
    [breakType : AdBreakType, breakName : {""}, breakFormat : BreakFormat,
     breakStatus : AnyStatus]

InitTranslator ==
    /\ PluginInit
    /\ translatorInput \in PlacementInfos
    /\ translatorOutput = NoResult

\* placementInfoToAdLadResult(placementInfo) (mod.js:73-97)
Translate ==
    /\ translatorOutput = NoResult
    /\ translatorOutput' = placementInfoToAdLadResult(translatorInput)
    /\ UNCHANGED <<initVars, loopVars, hostVars, showRewardedAdFn,
                   resolveRewardedAdFn, attempts, fullScreens, rewardedCalls,
                   translatorInput>>

\* the translation at the end of showAdHelper (part_000:78-102)
TranslateHelper ==
    /\ translatorOutput = NoResult
    /\ translatorOutput' = showAdHelperResult(translatorInput)
    /\ UNCHANGED <<initVars, loopVars, hostVars, showRewardedAdFn,
                   resolveRewardedAdFn, attempts, fullScreens, rewardedCalls,
                   translatorInput>>

NextTranslator ==
    \/ Translate
    \/ TranslateHelper

SpecTranslator == InitTranslator /\ [][NextTranslator]_vars

\* ---- claims ----
LastCall(cs) == cs[Len(cs)]
IsRewardedCall == Len(rewardedCalls') = Len(rewardedCalls) + 1

\* C1: whenever the flag last passed to setCanShowRewardedAd is false, a
\* showRewardedAd call returns {didShowAd: false, errorReason:
\* "no-ad-available"} at once and does not invoke the vendor show function.
C1_FlagFalseFailsSoftly ==
    [][(IsRewardedCall /\ ~canShow)
        => /\ LastCall(rewardedCalls').state = "returned"
           /\ LastCall(rewardedCalls').result = NoAdAvailable
           /\ \A n \in 1..Len(attempts) :
                  attempts'[n].showCalls = attempts[n].showCalls]_vars

\* C2: the vendor show function of an attempt is invoked at most once.
C2_TriggerUsedAtMostOnce ==
    \A n \in 1..Len(attempts) : attempts[n].showCalls <= 1

\* C3: no showRewardedAd call that invoked the trigger is still pending once
\* the loop has processed the completion hook of the trigger's attempt.
C3_NoCallerLeftPending ==
    \A c \in 1..Len(rewardedCalls) :
        rewardedCalls[c].state = "pending"
        => \/ attempts[rewardedCalls[c].trigger].phase # "done"
           \/ loopPc = "resumed" /\ loopResult.attempt = rewardedCalls[c].trigger

\* C4: a showRewardedAd call that invoked a trigger returns only the
\* translation of the PlacementInfo that the completion hook of the
\* trigger's own attempt delivered; "viewed" gives {true, null}.
C4_SettledByOwnAttempt ==
    \A c \in 1..Len(rewardedCalls) :
        LET call == rewardedCalls[c] IN
        (call.state = "returned" /\ call.trigger # 0)
        => /\ call.settledBy = call.trigger
           /\ attempts[call.trigger].phase = "done"
           /\ call.result = placementInfoToAdLadResult(attempts[call.trigger])
           /\ attempts[call.trigger].breakStatus = "viewed"
              => call.result = [didShowAd |-> TRUE, errorReason |-> "null"]

C4_Witness ==
    \E c \in 1..Len(rewardedCalls) :
        /\ rewardedCalls[c].state = "returned"
        /\ rewardedCalls[c].trigger = 2
        /\ rewardedCalls[c].result.didShowAd
        /\ attempts[1].offered

\* C5: while the current attempt has had no beforeReward (and in the
\* cooldown after such an attempt) the flag is false, no trigger is
\* published, and every showRewardedAd call returns no-ad-available.
NoOfferWindow ==
    /\ loopPc \in {"awaitDone", "resumed", "timer"}
    /\ ~attempts[CurrentAttempt].offered

C5_NoOfferNoTrigger ==
    /\ [](NoOfferWindow => (~canShow /\ showRewardedAdFn = NULL))
    /\ [][(NoOfferWindow /\ IsRewardedCall)
           => /\ LastCall(rewardedCalls').state = "returned"
              /\ LastCall(rewardedCalls').result = NoAdAvailable
              /\ ~canShow'
              /\ attempts' = attempts]_vars

C5_Witness ==
    /\ Len(attempts) = 2
    /\ attempts[1].showCalls = 1
    /\ NoOfferWindow
    /\ Len(rewardedCalls) = 2
    /\ rewardedCalls[1].trigger = 1
    /\ rewardedCalls[2].trigger = 0
    /\ rewardedCalls[2].result = NoAdAvailable

\* C6: an initialize call after the first one throws and changes nothing:
\* no second script tag, context, adConfig, ad break or rewardedLoop.
C6_SecondInitializeNoEffect ==
    /\ [](scriptTags <= 1 /\ loopsStarted <= 1 /\ configPushed <= 1)
    /\ [][(initializeCalled /\ initCalls' = initCalls + 1)
           => /\ initThrows' = initThrows + 1
              /\ UNCHANGED <<initializeCalled, initializeContext, initPc,
                             scriptTags, scriptState, configPushed,
                             loopsStarted, loopVars, hostVars,
                             showRewardedAdFn, resolveRewardedAdFn, attempts,
                             fullScreens, rewardedCalls>>]_vars

C6_Witness ==
    /\ initThrows = 1
    /\ initializeContext = 1
    /\ initPc = "rejected"

\* C7: after a script error initialize is rejected for good: no adConfig, no
\* loop, no rewarded request, flag false; rewarded requests exist only after
\* the script loaded and adConfig was pushed.
C7_LoopOnlyAfterLoad ==
    /\ [](/\ scriptState = "error"
             => /\ initPc = "rejected"
                /\ configPushed = 0
                /\ loopsStarted = 0
                /\ loopPc = "notStarted"
                /\ attempts = <<>>
                /\ ~canShow
                /\ showRewardedAdFn = NULL
          /\ scriptState = "loaded"
             => initPc = "done" /\ configPushed = 1 /\ loopsStarted = 1
          /\ attempts # <<>> => scriptState = "loaded" /\ configPushed = 1)
    /\ [][scriptState = "error"
           => scriptState' = "error" /\ scriptTags' = scriptTags]_vars

C7_Witness ==
    /\ scriptState = "error"
    /\ Len(rewardedCalls) > 0
    /\ Len(fullScreens) > 0

\* C8: a display operation called before initialize throws: it returns no
\* result, pushes no request and leaves no promise pending.
C8_DisplayBeforeInitializeThrows ==
    ~initializeCalled
    => /\ fullScreens = <<>>
       /\ \A c \in 1..Len(rewardedCalls) : rewardedCalls[c].state = "threw"

\* C9: the Result Translator returns exactly the row of the table for every
\* breakStatus, and didShowAd is true iff errorReason is null.
TranslationTable(status) ==
    CASE status = "viewed" -> [didShowAd |-> TRUE, errorReason |-> "null"]
      [] status = "frequencyCapped"
            -> [didShowAd |-> FALSE, errorReason |-> "time-constraint"]
      [] status = "dismissed"
            -> [didShowAd |-> FALSE, errorReason |-> "user-dismissed"]
      [] status \in {"notReady", "timeout", "noAdPreloaded"}
            -> [didShowAd |-> FALSE, errorReason |-> "no-ad-available"]
      [] OTHER -> [didShowAd |-> FALSE, errorReason |-> "unknown"]

C9_TranslationTable ==
    translatorOutput # NoResult
    => /\ translatorOutput = TranslationTable(translatorInput.breakStatus)
       /\ translatorOutput.didShowAd <=> translatorOutput.errorReason = "null"

C9_Witness ==
    /\ translatorOutput # NoResult
    /\ translatorInput.breakStatus = "noAdPreloaded"

\* C10: a showFullScreenAd call pushes one "pause" request, returns the
\* translation of that request's PlacementInfo, and none of its steps
\* touches showRewardedAdFn, resolveRewardedAdFn, the flag or a pending
\* showRewardedAd call.
C10_FullScreenLeavesReconciler ==
    /\ [](\A f \in 1..Len(fullScreens) :
            /\ fullScreens[f].type = "pause"
            /\ fullScreens[f].pushes = 1
            /\ fullScreens[f].state = "returned" <=> fullScreens[f].phase = "done"
            /\ fullScreens[f].state = "returned"
               => fullScreens[f].result
                    = placementInfoToAdLadResult(fullScreens[f]))
    /\ [][fullScreens' # fullScreens
           => UNCHANGED <<showRewardedAdFn, resolveRewardedAdFn, canShow,
                          rewardedCalls, attempts, loopVars>>]_vars

C10_Witness ==
    /\ resolveRewardedAdFn # NULL
    /\ rewardedCalls[resolveRewardedAdFn].state = "pending"
    /\ \E f \in 1..Len(fullScreens) : fullScreens[f].state = "returned"

\* C11: showRewardedAdFn is non-null exactly when the flag last passed to
\* setCanShowRewardedAd is true, in every state the host can observe.
C11_TriggerIffFlag ==
    (showRewardedAdFn # NULL) <=> canShow

\* C12: at most one rewarded request is outstanding: every request but the
\* loop's latest has had its adBreakDone.
C12_OneOutstandingRequest ==
    /\ \A n \in 1..Len(attempts) :
           n < Len(attempts) => attempts[n].phase = "done"
    /\ loopPc = "awaitDone" => attempts[CurrentAttempt].phase # "done"

C12_Witness ==
    /\ Len(attempts) = 2
    /\ attempts[2].phase = "inAd"
    /\ Len(fullScreens) = 1
    /\ fullScreens[1].phase = "inAd"

StartsAttempt == Len(attempts') = Len(attempts) + 1

\* C13: a further attempt starts only when REWARDED_LOOP_RETRY_TIMEOUT has
\* passed since the start of the previous one; completion after an elapsed
\* time below the timeout waits for the remainder, otherwise the next
\* attempt starts in the same step.
C13_Cooldown ==
    [][/\ (StartsAttempt /\ Len(attempts) >= 1)
          => timePassed >= REWARDED_LOOP_RETRY_TIMEOUT
       /\ (loopPc = "resumed" /\ loopPc' # "resumed")
          => IF timePassed < REWARDED_LOOP_RETRY_TIMEOUT
             THEN /\ loopPc' = "timer"
                  /\ timerLeft' = REWARDED_LOOP_RETRY_TIMEOUT - timePassed
                  /\ ~StartsAttempt
             ELSE StartsAttempt]_vars

C13_Witness ==
    /\ Len(attempts) = 2
    /\ timePassed = 0
    /\ attempts[2].phase = "queued"

\* C14: the trigger lowers the flag before it enters the vendor show
\* function: showAdFn is never entered with the flag told true, and the
\* flag is never true once the published trigger's showAdFn was entered.
C14_FlagFalseBeforeShow ==
    /\ \A c \in 1..Len(rewardedCalls) :
           rewardedCalls[c].trigger # 0 => ~rewardedCalls[c].flagAtShow
    /\ canShow => /\ showRewardedAdFn # NULL
                  /\ attempts[showRewardedAdFn].showCalls = 0

C14_Witness ==
    \E c \in 1..Len(rewardedCalls) :
        /\ rewardedCalls[c].trigger # 0
        /\ attempts[rewardedCalls[c].trigger].phase = "inAd"
        /\ attempts[rewardedCalls[c].trigger].showCalls = 1
        /\ ~canShow

\* C15: whenever the loop pushes a rewarded request, and while it waits in
\* the cooldown, showRewardedAdFn and resolveRewardedAdFn are null and the
\* flag is false.
ReconcilerReset ==
    /\ showRewardedAdFn = NULL
    /\ resolveRewardedAdFn = NULL
    /\ ~canShow

C15_CompletionResets ==
    /\ [](loopPc = "timer" => ReconcilerReset)
    /\ [][StartsAttempt => ReconcilerReset']_vars

C15_Witness ==
    /\ loopPc = "timer"
    /\ attempts[CurrentAttempt].offered
    /\ attempts[CurrentAttempt].showCalls = 2
    /\ \E c \in 1..Len(rewardedCalls) : rewardedCalls[c].state = "pending"

\* C16: the loop goes on after every reported status: each rewarded
\* request (below the bound of the model) is followed by another one; and
\* the completion of an attempt without offer settles no call and tells the
\* host nothing but setCanShowRewardedAd(false).
C16_LoopNeverStops ==
    /\ \A k \in 1..(MaxAttempts - 1) :
           (Len(attempts) = k) ~> (Len(attempts) = k + 1)
    /\ [][(loopPc = "resumed" /\ loopPc' # "resumed"
           /\ ~attempts[CurrentAttempt].offered)
          => /\ rewardedCalls' = rewardedCalls
             /\ UNCHANGED <<needsPause, needsMute>>
             /\ ~canShow /\ ~canShow']_vars

C16_Witness ==
    /\ Len(attempts) = 2
    /\ ~attempts[1].offered
    /\ attempts[1].breakStatus = "frequencyCapped"
    /\ \A c \in 1..Len(rewardedCalls) : rewardedCalls[c].result = NoAdAvailable

\* C17: the host's needsPause and needsMute are both true whenever some ad
\* break, full-screen or rewarded, is between its beforeAd and its afterAd
\* hook, and both false whenever none is.
AdShowing ==
    \/ \E n \in 1..Len(attempts) : attempts[n].phase = "inAd"
    \/ \E f \in 1..Len(fullScreens) : fullScreens[f].phase = "inAd"

C17_PauseMuteBracketEveryAd ==
    /\ AdShowing => (needsPause /\ needsMute)
    /\ ~AdShowing => (~needsPause /\ ~needsMute)

\* C18: when the completion hook fires inside the show function, the closure
\* has stored the call's resolver before the loop's continuation runs, and
\* that continuation settles every call still pending on the completed
\* attempt with the translation of the attempt's PlacementInfo.
SyncCompletion == IsRewardedCall /\ loopPc = "awaitDone" /\ loopPc' = "resumed"

C18_SyncCompletionSettlesCall ==
    [][/\ SyncCompletion
          => /\ resolveRewardedAdFn' = Len(rewardedCalls')
             /\ LastCall(rewardedCalls').state = "pending"
       /\ (loopPc = "resumed" /\ loopPc' # "resumed")
          => \A c \in 1..Len(rewardedCalls) :
                 (rewardedCalls[c].state = "pending"
                  /\ rewardedCalls[c].trigger = loopResult.attempt)
                 => /\ rewardedCalls'[c].state = "returned"
                    /\ rewardedCalls'[c].result =
                           placementInfoToAdLadResult(loopResult)]_vars

\* C19: once the completion hook of a rewarded attempt has fired, no later
\* showRewardedAd call invokes that attempt's vendor show function.
C19_NoStaleOfferUsable ==
    [][IsRewardedCall
        => \A n \in 1..Len(attempts) :
               attempts[n].phase = "done"
               => attempts'[n].showCalls = attempts[n].showCalls]_vars

====
